---------------------------- MODULE Spec2Model ----------------------------
(***************************************************************************)
(* Model of the event core of addons/webapi/event.ts: one Event object and *)
(* one EventTarget with its _listeners map, driven by application code and *)
(* by listeners that run inside dispatchEvent.                             *)
(*                                                                         *)
(* JavaScript values that a flag can hold are written as the strings       *)
(* "undefined", "true" and "false".  A listener argument is one of         *)
(* Listeners, or "null" for an absent listener.  The argument of           *)
(* dispatchEvent is "ev" for the Event object, "null" for an absent event  *)
(* and "untyped" for an object whose type is not a string.                 *)
(*                                                                         *)
(* dispatchEvent is synchronous, so the only places where other code runs  *)
(* in the middle of it are the listener calls of line 249.  `stack` holds  *)
(* one frame per dispatchEvent call that is currently inside such a call;  *)
(* every operation may be called by application code (stack empty) or by   *)
(* the listener that is running (top frame).                               *)
(***************************************************************************)
EXTENDS Integers, Sequences, FiniteSets, TLC

\* Bounds of the model.
\* registrations created in one behaviour
MaxRecs == 2
\* dispatchEvent calls nested in one another
MaxDepth == 2

\* event types, and the types application code registers listeners for
Types == {"a", "b"}
RegTypes == {"a"}

\* "f1": a function, or an object with a handleEvent method;
\* "n1": an object without handleEvent that is not a function.
Listeners == {"f1", "n1"}

Truthy(v) == v = "true"

\* `!v` of lines 237 and 260
Not(v) == IF Truthy(v) THEN "false" ELSE "true"

\* `a == b` of lines 274 and 276 on undefined / true / false: undefined is
\* loosely equal to undefined (and null) only, never to false.
LooseEq(a, b) == a = b

\* lines 241-248: the callable the dispatch resolves for a registration
Callable(l) == l = "f1"

\* options arguments: absent, a boolean, or a record with capture / once
Absent == [kind |-> "absent", capture |-> "undefined", once |-> "undefined"]
BoolOpt(b) == [kind |-> "boolean", capture |-> b, once |-> "undefined"]
ObjOpt(c, o) == [kind |-> "object", capture |-> c, once |-> o]

AddOptions == {Absent, BoolOpt("true"), ObjOpt("undefined", "true")}

RemoveOptions ==
  {Absent, BoolOpt("true"), BoolOpt("false"), ObjOpt("undefined", "undefined")}

\* eventInitDict of the Event constructor: absent, or a record
NoInit == [given |-> FALSE, bubbles |-> "undefined", cancelable |-> "undefined"]
InitDict(b, c) == [given |-> TRUE, bubbles |-> b, cancelable |-> c]

EventInits == {NoInit, InitDict("true", "true")}

\* A frame of `stack` holds the locals of one dispatchEvent call: `type` the
\* key of origin_recorders in _listeners, `recorders` the copy of line 236,
\* `idx` / `recorder` the position and the element of the loop of line 240,
\* `once_listeners`; and the history of the call described further down.
---------------------------------------------------------------------------
\* index.tsx: the feature modules and the global namespace

\* const modules = [ timer, misc, performance ] of line 14
ModuleNames == <<"timer", "misc", "performance">>

\* the names of event.ts's default export
EventExports == {"Phase", "Event", "ProgressEvent", "EventTarget"}

\* names a feature module may export, in the order of its exports object
ExportPool(name) ==
  CASE name = "timer" -> <<"setTimeout", "clearTimeout">>
    [] name = "misc" -> <<"btoa">>
    [] name = "performance" -> <<"performance">>

\* an exports object with these keys, and the absent exports
Exports(keys) == [defined |-> TRUE, keys |-> keys]
NoExports == [defined |-> FALSE, keys |-> << >>]

\* interface WebAPIModule: initialize, uninitialize and exports are each
\* optional
WebAPIModule(name) ==
  [name : {name},
   initialize : BOOLEAN,
   uninitialize : BOOLEAN,
   exports : {NoExports}
             \cup {Exports(SubSeq(ExportPool(name), 1, k)) :
                     k \in 0..Len(ExportPool(name))}]

\* the global namespace before the binder exists, with modules ms imported
NotBooted(ms) ==
  [modules |-> ms, pc |-> "new", window |-> [k \in {} |-> "undefined"],
   log |-> << >>, lastAssign |-> [key |-> "none", outcome |-> "none"]]

\* feature modules that have both hooks and export all their names
FullModule(name) ==
  [name |-> name, initialize |-> TRUE, uninitialize |-> TRUE,
   exports |-> Exports(ExportPool(name))]

VARIABLES
  boot,         \* the binder (index.tsx): modules, phase, globals, call log
  listeners,    \* EventTarget._listeners: type -> array of registrations
  ev,           \* the fields of the Event object
  stack,        \* the dispatchEvent calls in progress, outermost first
  nextId,       \* identity of the next registration object created
  invokedSet,   \* history: the once registrations invoked so far
  lastCall      \* history: the dispatchEvent call that has just returned

vars == <<boot, listeners, ev, stack, nextId, invokedSet, lastCall>>

core == <<listeners, ev, stack, nextId, invokedSet, lastCall>>

\* no dispatchEvent call has just returned
NoCall == [op |-> "none", arg |-> "none", ret |-> "undefined"]

\* dispatchEvent(event) has returned ret, or "throw" when a listener failed
Returned(event, ret) == [op |-> "dispatchEvent", arg |-> event, ret |-> ret]

\* Event constructor, lines 30-37; fields never assigned stay undefined
NewEventObject(type, init) ==
  [type |-> type,
   bubbles |-> IF init.given THEN init.bubbles ELSE "undefined",
   cancelable |-> IF init.given THEN init.cancelable ELSE "undefined",
   defaultPrevented |-> "undefined",
   cancelBubble |-> "undefined",
   target |-> "undefined",
   currentTarget |-> "undefined"]

Init ==
  /\ boot = NotBooted([k \in 1..Len(ModuleNames) |-> FullModule(ModuleNames[k])])
  /\ listeners = [t \in {} |-> << >>]
  /\ ev \in {NewEventObject(t, NoInit) : t \in Types}
  /\ stack = << >>
  /\ nextId = 1
  /\ invokedSet = {}
  /\ lastCall = NoCall


---------------------------------------------------------------------------
\* Array helpers

\* Array.prototype.indexOf on registration objects: zero-based position of
\* the object itself (identity), -1 when it is not in the array
RECURSIVE IndexFrom(_, _, _)
IndexFrom(recs, r, k) ==
  IF k > Len(recs) THEN -1
  ELSE IF recs[k].id = r.id THEN k - 1
  ELSE IndexFrom(recs, r, k + 1)

IndexOf(recs, r) == IndexFrom(recs, r, 1)

\* Array.prototype.splice(i, 1) with a zero-based start: a negative start
\* counts from the end of the array
Splice(recs, i) ==
  LET n == Len(recs)
      s == IF i < 0 THEN (IF n + i < 0 THEN 0 ELSE n + i)
           ELSE (IF i > n THEN n ELSE i)
  IN [k \in 1..(IF s < n THEN n - 1 ELSE n) |->
        IF k <= s THEN recs[k] ELSE recs[k + 1]]

\* (variant: the registration is put in front)
Unshift(recs, r) == <<r>> \o recs

\* this._listeners[type].push(recorder) of line 224
Push(recs, r) == Append(recs, r)

\* origin_recorders.slice() of line 236
Slice(recs) == recs

\* (variant: the loop walks the live array)
IterSourceLive(recorders, origin_recorders) == origin_recorders

\* the array the loop of line 240 walks: the copy, not the live array
IterSource(recorders, origin_recorders) == recorders

\* lines 257-259
RECURSIVE Cleanup(_, _)
Cleanup(origin_recorders, once_listeners) ==
  IF once_listeners = << >> THEN origin_recorders
  ELSE Cleanup(Splice(origin_recorders,
                      IndexOf(origin_recorders, Head(once_listeners))),
               Tail(once_listeners))

\* lines 217-222: the registration object built from the options argument
\* (`passive` is copied along with an options record and never read)
Recorder(id, listener, options) ==
  [id |-> id, listener |-> listener,
   capture |-> IF options.kind = "absent" THEN "undefined" ELSE options.capture,
   once |-> IF options.kind = "object" THEN options.once ELSE "undefined"]

\* lines 272-277
SameOptions(recorder, options) ==
  IF options.kind = "absent" THEN TRUE
  ELSE LooseEq(recorder.capture, options.capture)

\* (variant: the listener is not compared)
MatchesOptionsOnly(recorder, listener, options) ==
  SameOptions(recorder, options)

\* lines 271 and 278: the test a registration passes to be removed
Matches(recorder, listener, options) ==
  recorder.listener = listener /\ SameOptions(recorder, options)

\* lines 269-283: position (one-based) of the registration removed, 0 if none
RECURSIVE FirstMatch(_, _, _, _)
FirstMatch(recorders, listener, options, i) ==
  IF i > Len(recorders) THEN 0
  ELSE IF Matches(recorders[i], listener, options)
       THEN i
  ELSE FirstMatch(recorders, listener, options, i + 1)

\* (variant: the loop is never left early)
NeverBreaks(event) == FALSE

\* the test of line 254
Breaks(event) == Truthy(event.defaultPrevented)

\* lines 240-255 from position i of the loop up to the next listener call:
\* the position of the registration whose listener is called next, 0 when
\* the loop ends first (end of the array, or the break of line 254 after a
\* registration that was not called)
RECURSIVE NextStop(_, _, _)
NextStop(src, i, event) ==
  IF i > Len(src) THEN 0
  ELSE IF Callable(src[i].listener) THEN i
  ELSE IF Breaks(event) THEN 0
  ELSE NextStop(src, i + 1, event)

Top == stack[Len(stack)]
Below == SubSeq(stack, 1, Len(stack) - 1)

\* (variant: line 254 missing, the loop never breaks)
AfterListenerNoBreak(src, idx, event) == idx + 1

\* line 254 after the listener at position idx has returned: the position
\* the loop goes on from, past the end when it breaks
AfterListener(src, idx, event) ==
  IF Breaks(event) THEN Len(src) + 1 ELSE idx + 1

\* dispatchEvent of frame f on top of the frames `below`, resumed at loop
\* position i: either the next listener is called (line 249) or the loop is
\* over and lines 257-260 run
Continue(below, f, i) ==
  LET src == IterSource(f.recorders, listeners[f.type])
      n == NextStop(src, i, ev)
  IN IF n # 0
     THEN /\ stack' = Append(below, [f EXCEPT !.idx = n,
                                              !.recorder = src[n],
                                              !.invoked = Append(@, src[n].id)])
          /\ invokedSet' = IF Truthy(src[n].once)
                           THEN invokedSet \cup {src[n].id} ELSE invokedSet
          /\ lastCall' = NoCall
          /\ UNCHANGED listeners
     ELSE /\ stack' = below
          /\ listeners' = [listeners EXCEPT
                             ![f.type] = Cleanup(@, f.once_listeners)]
          /\ lastCall' = Returned("ev", Not(ev.defaultPrevented))
          /\ UNCHANGED invokedSet

---------------------------------------------------------------------------
\* EventTarget

\* lines 212-225
AddEventListener(type, listener, options) ==
  /\ IF listener = "null"
     THEN UNCHANGED <<listeners, nextId>>
     ELSE /\ nextId <= MaxRecs
          /\ listeners' =
               [t \in DOMAIN listeners \cup {type} |->
                  IF t = type
                  THEN Push(IF t \in DOMAIN listeners THEN listeners[t]
                            ELSE << >>,
                            Recorder(nextId, listener, options))
                  ELSE listeners[t]]
          /\ nextId' = nextId + 1
  /\ lastCall' = NoCall
  /\ UNCHANGED <<ev, stack, invokedSet>>

\* lines 266-284
RemoveEventListener(type, listener, options) ==
  /\ IF listener = "null" \/ type \notin DOMAIN listeners
     THEN UNCHANGED listeners
     ELSE LET i == FirstMatch(listeners[type], listener, options, 1)
          IN IF i = 0 THEN UNCHANGED listeners
             ELSE listeners' = [listeners EXCEPT ![type] = Splice(@, i - 1)]
  /\ lastCall' = NoCall
  /\ UNCHANGED <<ev, stack, nextId, invokedSet>>

\* lines 230-239 and the loop up to the first listener call
DispatchEvent(event) ==
  IF event \in {"null", "untyped"} \/ ev.type \notin DOMAIN listeners
  THEN /\ lastCall' = Returned(event, "true")
       /\ UNCHANGED <<listeners, ev, stack, nextId, invokedSet>>
  ELSE LET origin_recorders == listeners[ev.type]
           recorders == Slice(origin_recorders)
       IN IF Len(recorders) = 0
          THEN /\ lastCall' = Returned(event, Not(ev.defaultPrevented))
               /\ UNCHANGED <<listeners, ev, stack, nextId, invokedSet>>
          ELSE /\ Len(stack) < MaxDepth
               /\ Continue(stack,
                           [type |-> ev.type, recorders |-> recorders,
                            idx |-> 0, recorder |-> Head(recorders),
                            once_listeners |-> << >>,
                            start |-> origin_recorders, invoked |-> << >>,
                            dp0 |-> Truthy(ev.defaultPrevented),
                            pdAt |-> 0, pdNo |-> 0, sipAt |-> 0,
                            nc |-> ~Truthy(ev.cancelable)
                                   /\ ~Truthy(ev.defaultPrevented)],
                           1)
               /\ UNCHANGED <<ev, nextId>>

\* the running listener returns: lines 250-254, then the rest of the loop
ListenerReturn ==
  /\ stack # << >>
  /\ LET src == IterSource(Top.recorders, listeners[Top.type])
         f == [Top EXCEPT !.once_listeners =
                 IF Truthy(Top.recorder.once) THEN Append(@, Top.recorder)
                 ELSE @]
     IN Continue(Below, f, AfterListener(src, Top.idx, ev))
  /\ UNCHANGED <<ev, nextId>>

\* (variant: the removal of lines 257-259 is run although the listener
\* failed)
ListenerThrowCleaning ==
  /\ stack # << >>
  /\ stack' = Below
  /\ listeners' = [listeners EXCEPT
                     ![Top.type] =
                       Cleanup(@, IF Truthy(Top.recorder.once)
                                  THEN Append(Top.once_listeners, Top.recorder)
                                  ELSE Top.once_listeners)]
  /\ lastCall' = Returned("ev", "throw")
  /\ UNCHANGED <<ev, nextId, invokedSet>>

\* the running listener fails: nothing in dispatchEvent catches it, so the
\* call of line 249 is left and with it dispatchEvent
ListenerThrow ==
  /\ stack # << >>
  /\ stack' = Below
  /\ lastCall' = Returned("ev", "throw")
  /\ UNCHANGED <<listeners, ev, nextId, invokedSet>>

---------------------------------------------------------------------------
\* Event

\* new Event(type, eventInitDict) by application code
NewEvent(type, init) ==
  /\ stack = << >>
  /\ ev' = NewEventObject(type, init)
  /\ lastCall' = NoCall
  /\ UNCHANGED <<listeners, stack, nextId, invokedSet>>

\* (variant: initEvent also clears the prevented flag)
InitEventResetting(type, bubbles, cancelable) ==
  /\ ev' = [ev EXCEPT !.type = type, !.bubbles = bubbles,
                      !.cancelable = cancelable,
                      !.defaultPrevented = "undefined"]
  /\ stack' = [k \in 1..Len(stack) |->
                 [stack[k] EXCEPT !.nc = @ /\ ~Truthy(cancelable),
                                  !.pdNo = IF Truthy(cancelable) THEN 0 ELSE @]]
  /\ lastCall' = NoCall
  /\ UNCHANGED <<listeners, nextId, invokedSet>>

\* lines 109-113
InitEvent(type, bubbles, cancelable) ==
  /\ ev' = [ev EXCEPT !.type = type, !.bubbles = bubbles,
                      !.cancelable = cancelable]
  /\ stack' = [k \in 1..Len(stack) |->
                 [stack[k] EXCEPT !.nc = @ /\ ~Truthy(cancelable),
                                  !.pdNo = IF Truthy(cancelable) THEN 0 ELSE @]]
  /\ lastCall' = NoCall
  /\ UNCHANGED <<listeners, nextId, invokedSet>>

\* the history kept by preventDefault() in the frames of the dispatches in
\* progress
NotePreventDefault ==
  /\ stack' = [k \in 1..Len(stack) |->
                 [stack[k] EXCEPT !.pdAt =
                    IF Truthy(ev.cancelable) /\ @ = 0
                    THEN Len(stack[k].invoked) ELSE @,
                                  !.pdNo =
                    IF stack[k].nc /\ @ = 0
                    THEN Len(stack[k].invoked) ELSE @]]
  /\ lastCall' = NoCall
  /\ UNCHANGED <<listeners, nextId, invokedSet>>

\* (variant: the test of line 119 missing)
PreventDefaultAlways ==
  /\ ev' = [ev EXCEPT !.defaultPrevented = "true"]
  /\ NotePreventDefault

\* lines 118-122
PreventDefault ==
  /\ ev' = IF Truthy(ev.cancelable)
           THEN [ev EXCEPT !.defaultPrevented = "true"] ELSE ev
  /\ NotePreventDefault

\* the history kept by stopImmediatePropagation()
NoteStopImmediate ==
  /\ stack' = [k \in 1..Len(stack) |->
                 [stack[k] EXCEPT !.sipAt =
                    IF @ = 0 THEN Len(stack[k].invoked) ELSE @,
                                  !.nc = FALSE, !.pdNo = 0]]
  /\ lastCall' = NoCall
  /\ UNCHANGED <<listeners, nextId, invokedSet>>

\* (variant: defaultPrevented set only for a cancelable event)
StopImmediatePropagationGated ==
  /\ ev' = IF Truthy(ev.cancelable)
           THEN [ev EXCEPT !.defaultPrevented = "true", !.cancelBubble = "false"]
           ELSE [ev EXCEPT !.cancelBubble = "false"]
  /\ NoteStopImmediate

\* lines 127-130
StopImmediatePropagation ==
  /\ ev' = [ev EXCEPT !.defaultPrevented = "true", !.cancelBubble = "false"]
  /\ NoteStopImmediate

\* lines 135-139
StopPropagation ==
  /\ ev' = IF Truthy(ev.bubbles)
           THEN [ev EXCEPT !.cancelBubble = "true"] ELSE ev
  /\ lastCall' = NoCall
  /\ UNCHANGED <<listeners, stack, nextId, invokedSet>>

---------------------------------------------------------------------------
Next ==
  \/ /\ \E type \in RegTypes, listener \in Listeners \cup {"null"},
           options \in AddOptions :
          AddEventListener(type, listener, options)
     /\ UNCHANGED boot
  \/ /\ \E type \in Types, listener \in Listeners \cup {"null"},
           options \in RemoveOptions :
          RemoveEventListener(type, listener, options)
     /\ UNCHANGED boot
  \/ /\ \E event \in {"ev", "null", "untyped"} : DispatchEvent(event)
     /\ UNCHANGED boot
  \/ ListenerReturn /\ UNCHANGED boot
  \/ ListenerThrow /\ UNCHANGED boot
  \/ /\ \E type \in Types, init \in EventInits : NewEvent(type, init)
     /\ UNCHANGED boot
  \/ /\ \E type \in Types, flag \in {"undefined", "true"} :
          InitEvent(type, flag, flag)
     /\ UNCHANGED boot
  \/ PreventDefault /\ UNCHANGED boot
  \/ StopImmediatePropagation /\ UNCHANGED boot
  \/ StopPropagation /\ UNCHANGED boot

Spec == Init /\ [][Next]_vars

---------------------------------------------------------------------------
\* WebAPIBinder (index.tsx)

\* an entry of the call log: a hook called, or a key defined on window
Called(op, m) == [op |-> op, module |-> m.name, key |-> "undefined"]
Defined(m, key) == [op |-> "define", module |-> m.name, key |-> key]

\* lines 21-24: the keys of m.exports, defined in the order of the object
InstallSteps(m) ==
  IF ~m.exports.defined THEN << >>
  ELSE [i \in 1..Len(m.exports.keys) |-> Defined(m, m.exports.keys[i])]

\* (variant: the exports are installed before initialize is called)
ModuleStepsInstallFirst(m) ==
  InstallSteps(m)
    \o (IF m.initialize THEN <<Called("initialize", m)>> ELSE << >>)

\* lines 20-24: one turn of the constructor's loop, for module m
ModuleSteps(m) ==
  (IF m.initialize THEN <<Called("initialize", m)>> ELSE << >>)
    \o InstallSteps(m)

\* lines 19-25: the loop over modules from position k on
RECURSIVE ConstructorSteps(_, _)
ConstructorSteps(ms, k) ==
  IF k > Len(ms) THEN << >>
  ELSE ModuleSteps(ms[k]) \o ConstructorSteps(ms, k + 1)

\* lines 29-31: the loop of _exit_tree from position k on
RECURSIVE ExitSteps(_, _)
ExitSteps(ms, k) ==
  IF k > Len(ms) THEN << >>
  ELSE (IF ms[k].uninitialize THEN <<Called("uninitialize", ms[k])>>
        ELSE << >>)
         \o ExitSteps(ms, k + 1)

\* Object.defineProperty(window, key, { value }) of line 23 on a key that
\* window does not have: writable, configurable and enumerable default to
\* false
DataProperty(value) ==
  [value |-> value, writable |-> FALSE, configurable |-> FALSE]

\* window after the definitions among steps
DefineAll(window, steps) ==
  LET defs == {i \in 1..Len(steps) : steps[i].op = "define"}
      keys == {steps[i].key : i \in defs}
  IN [k \in DOMAIN window \cup keys |->
        IF k \in keys
        THEN DataProperty(steps[CHOOSE i \in defs : steps[i].key = k].module)
        ELSE window[k]]

\* no assignment to a global name has been tried
NoAssign == [key |-> "none", outcome |-> "none"]

\* new WebAPIBinder(): lines 17-26
Constructor ==
  /\ boot.pc = "new"
  /\ LET steps == ConstructorSteps(boot.modules, 1)
     IN boot' = [boot EXCEPT !.pc = "ready",
                             !.log = steps,
                             !.window = DefineAll(@, steps),
                             !.lastAssign = NoAssign]
  /\ UNCHANGED core

\* (variant: _exit_tree also takes the installed names off window)
ExitTreeRemoving ==
  /\ boot.pc = "ready"
  /\ boot' = [boot EXCEPT !.pc = "exited",
                          !.log = @ \o ExitSteps(boot.modules, 1),
                          !.window = [k \in {} |-> "undefined"],
                          !.lastAssign = NoAssign]
  /\ UNCHANGED core

\* _exit_tree(): lines 28-32
ExitTree ==
  /\ boot.pc = "ready"
  /\ boot' = [boot EXCEPT !.pc = "exited",
                          !.log = @ \o ExitSteps(boot.modules, 1),
                          !.lastAssign = NoAssign]
  /\ UNCHANGED core

\* window[key] = value by application code once the binder exists: a
\* property defined at line 23 is not writable, so the assignment leaves it
\* as it is; a key window does not have becomes an ordinary property
AssignGlobal(key) ==
  /\ boot.pc # "new"
  /\ IF key \in DOMAIN boot.window /\ ~boot.window[key].writable
     THEN boot' = [boot EXCEPT
                     !.lastAssign = [key |-> key, outcome |-> "rejected"]]
     ELSE boot' = [boot EXCEPT
                     !.window = [k \in DOMAIN @ \cup {key} |->
                                   IF k = key
                                   THEN [value |-> "app", writable |-> TRUE,
                                         configurable |-> TRUE]
                                   ELSE @[k]],
                     !.lastAssign = [key |-> key, outcome |-> "assigned"]]
  /\ UNCHANGED core

\* global names application code assigns to
AssignKeys == {"setTimeout", "performance", "Event"}

\* the binder with every shape of the three feature modules; the event core
\* is idle
BootInit ==
  /\ boot \in {NotBooted(<<timer, misc, performance>>) :
                 timer \in WebAPIModule("timer"),
                 misc \in WebAPIModule("misc"),
                 performance \in WebAPIModule("performance")}
  /\ listeners = [t \in {} |-> << >>]
  /\ ev = NewEventObject("a", NoInit)
  /\ stack = << >>
  /\ nextId = 1
  /\ invokedSet = {}
  /\ lastCall = NoCall

BootNext ==
  \/ Constructor
  \/ ExitTree
  \/ \E key \in AssignKeys : AssignGlobal(key)

BootSpec == BootInit /\ [][BootNext]_vars

---------------------------------------------------------------------------
\* Vocabulary of the properties.  A frame records, besides the locals of
\* dispatchEvent, the history of its call: `start` the live array when the
\* call began, `invoked` the registrations whose listener it has called,
\* `dp0` whether defaultPrevented was set when it began, `pdAt` / `sipAt`
\* how many listeners it had called when preventDefault() on a cancelable
\* event / stopImmediatePropagation() was first called during it, `nc`
\* whether the event was neither cancelable nor prevented when it began and
\* nothing but preventDefault() has been done to it since, and `pdNo` how
\* many listeners it had called when preventDefault() was first called while
\* `nc` held.

Frames == {stack[k] : k \in 1..Len(stack)}

Ids(recs) == {recs[i].id : i \in 1..Len(recs)}

Range(seq) == {seq[i] : i \in 1..Len(seq)}

IsCallableRec(r) == Callable(r.listener)

\* the registrations of recs that have a listener to call, by identity
RECURSIVE CallableIds(_)
CallableIds(recs) ==
  IF recs = << >> THEN << >>
  ELSE IF IsCallableRec(Head(recs))
       THEN <<Head(recs).id>> \o CallableIds(Tail(recs))
       ELSE CallableIds(Tail(recs))

IsPrefix(a, b) == Len(a) <= Len(b) /\ a = SubSeq(b, 1, Len(a))

\* recs without the registrations whose identity is in ids
RECURSIVE Without(_, _)
Without(recs, ids) ==
  IF recs = << >> THEN << >>
  ELSE IF Head(recs).id \in ids THEN Without(Tail(recs), ids)
       ELSE <<Head(recs)>> \o Without(Tail(recs), ids)

NewTop == stack'[Len(stack')]

\* a step in which a dispatchEvent call begins and calls its first listener
Enters == Len(stack') = Len(stack) + 1

\* a step in which the running listener returns and the next one is called
Proceeds ==
  /\ stack # << >>
  /\ Len(stack') = Len(stack)
  /\ NewTop.invoked # Top.invoked

\* a step in which the dispatchEvent call of the top frame returns
Finishes == Len(stack') = Len(stack) - 1 /\ lastCall'.ret # "throw"

\* the capture flag an options argument stands for
NormCapture(options) == Truthy(options.capture)

---------------------------------------------------------------------------
\* C1: snapshot isolation.  The listeners a dispatch calls are, in order, the
\* registrations (with a listener to call) of the list as it was when the
\* dispatch began: at any moment a prefix of them, all of them when the
\* dispatch returns true.  So a registration added during the dispatch is not
\* called in it, and one removed during it is still called.  A dispatch that
\* begins works on the list as mutated so far.
C1_SnapshotFrames ==
  \A f \in Frames : /\ IsPrefix(f.invoked, CallableIds(f.start))
                    /\ f.recorder.id \in Ids(f.start)

C1_SnapshotSteps ==
  /\ Finishes /\ lastCall'.ret = "true"
       => Top.invoked = CallableIds(Top.start)
  /\ Enters => /\ NewTop.recorders = listeners[ev.type]
               /\ NewTop.start = listeners[ev.type]

C1_SnapshotIsolation == [](C1_SnapshotFrames) /\ [][C1_SnapshotSteps]_vars

\* a registration that is no longer in the live list (and is not a once
\* registration) is being called as the second of its dispatch, next to one
\* that was added during the dispatch and is not in the snapshot
C1_Witness ==
  /\ Len(stack) = 1
  /\ Len(Top.start) = 2
  /\ Top.idx = 2
  /\ ~Truthy(Top.recorder.once)
  /\ Top.recorder.id \notin Ids(listeners[Top.type])

C1_WitnessAdded ==
  /\ Len(stack) = 1
  /\ Len(Top.start) = 1
  /\ Len(listeners[Top.type]) = 2
  /\ IsCallableRec(listeners[Top.type][2])

\* C2: a once registration is invoked exactly once, whatever the dispatches
\* (sequential or re-entrant), and is not in the list when the dispatch that
\* invoked it has returned.
C2_OnceSteps ==
  /\ (Enters \/ Proceeds) /\ Truthy(NewTop.recorder.once)
       => NewTop.recorder.id \notin invokedSet
  /\ Finishes
       => \A r \in Range(Top.start) :
            Truthy(r.once) /\ r.id \in Range(Top.invoked)
              => r.id \notin Ids(listeners'[Top.type])

C2_OnceExactlyOnce == [][C2_OnceSteps]_vars

\* C3: no list holds two registrations with the same listener and the same
\* capture flag.
C3_Uniqueness ==
  \A t \in DOMAIN listeners :
    \A i, j \in 1..Len(listeners[t]) :
      i < j => ~(/\ listeners[t][i].listener = listeners[t][j].listener
                 /\ Truthy(listeners[t][i].capture)
                      = Truthy(listeners[t][j].capture))

\* C4: once a listener has called preventDefault() on a cancelable event
\* during a dispatch, that dispatch calls no further listener, and it
\* returns false.
C4_PreventFrames == \A f \in Frames : f.pdAt # 0 => Len(f.invoked) = f.pdAt

C4_PreventSteps == Finishes /\ Top.pdAt # 0 => lastCall'.ret = "false"

C4_PreventDefaultStops == [](C4_PreventFrames) /\ [][C4_PreventSteps]_vars

\* the first of two listeners has called preventDefault() on a cancelable
\* event that was not prevented before
C4_Witness ==
  /\ Len(stack) = 1
  /\ ~Top.dp0 /\ Top.pdAt = 1 /\ Top.sipAt = 0
  /\ Len(Top.start) = 2 /\ IsCallableRec(Top.start[2])
  /\ Truthy(ev.cancelable) /\ Truthy(ev.defaultPrevented)

\* C5: on an event that is not cancelable and not prevented when the
\* dispatch begins, with preventDefault() the only cancelation call,
\* defaultPrevented stays unset, every registration of the snapshot that has
\* a listener to call is invoked, and the dispatch returns true.
C5_NonCancelableFrames ==
  \A f \in Frames : f.nc => ~Truthy(ev.defaultPrevented)

C5_NonCancelableSteps ==
  Finishes /\ Top.nc => /\ lastCall'.ret = "true"
                        /\ Top.invoked = CallableIds(Top.start)
                        /\ ~Truthy(ev'.defaultPrevented)

C6_ZeroRegistrations ==
  /\ lastCall.op = "dispatchEvent" /\ lastCall.arg = "ev"
  /\ lastCall.ret # "throw"
  /\ (ev.type \notin DOMAIN listeners \/ listeners[ev.type] = << >>)
  => lastCall.ret = Not(ev.defaultPrevented)

\* C7: the cleanup removes from the live list exactly the registrations
\* marked once during the dispatch; everything else in the live list when
\* the loop ends is still there, in the same order, when the call returns.
C7_CleanupSteps ==
  Finishes =>
    listeners'[Top.type] =
      Without(listeners[Top.type],
              Ids(Top.once_listeners) \cup
                (IF Truthy(Top.recorder.once) THEN {Top.recorder.id} ELSE {}))

C7_CleanupExact == [][C7_CleanupSteps]_vars

\* C8: removeEventListener removes the first registration of the type with
\* the same listener and the same normalized capture flag, and nothing else.
C8_Expected(type, listener, options) ==
  IF listener = "null" \/ type \notin DOMAIN listeners THEN listeners
  ELSE LET recs == listeners[type]
           hits == {i \in 1..Len(recs) :
                      /\ recs[i].listener = listener
                      /\ Truthy(recs[i].capture) = NormCapture(options)}
       IN IF hits = {} THEN listeners
          ELSE LET i == CHOOSE h \in hits : \A g \in hits : h <= g
               IN [listeners EXCEPT ![type] = Without(@, {recs[i].id})]

C8_RemoveSteps ==
  \A type \in Types, listener \in Listeners \cup {"null"},
     options \in RemoveOptions :
    RemoveEventListener(type, listener, options)
      => listeners' = C8_Expected(type, listener, options)

C8_RemoveNormalized == [][C8_RemoveSteps]_vars

\* C9: once a listener has called stopImmediatePropagation() during a
\* dispatch, defaultPrevented is set whatever the cancelable flag, the
\* dispatch calls no further listener, and it returns false.
C9_StopFrames ==
  \A f \in Frames : f.sipAt # 0 => /\ Truthy(ev.defaultPrevented)
                                   /\ Len(f.invoked) = f.sipAt

C9_StopSteps == Finishes /\ Top.sipAt # 0 => lastCall'.ret = "false"

C10_TargetAssigned ==
  /\ stack # << >> => ev.target = "t" /\ ev.currentTarget = "t"
  /\ lastCall.op = "dispatchEvent" /\ lastCall.arg = "ev"
       /\ lastCall.ret # "throw"
       => ev.target = "t"

\* C11: within a dispatch the listeners are invoked in registration order.
\* Registration objects are numbered as addEventListener creates them, so
\* the order of appending is the order of the identities: every list is in
\* that order at all times (removals do not reorder it), and so is the
\* sequence of registrations a dispatch has invoked.
Increasing(ids) == \A i, j \in 1..Len(ids) : i < j => ids[i] < ids[j]

IdSeq(recs) == [i \in 1..Len(recs) |-> recs[i].id]

HasListener(type, listener) ==
  /\ type \in DOMAIN listeners
  /\ \E i \in 1..Len(listeners[type]) : listeners[type][i].listener = listener

Silent == /\ listeners' = listeners
          /\ stack' = stack
          /\ invokedSet' = invokedSet
          /\ lastCall'.ret # "throw"

MalformedAdd ==
  \E type \in Types, options \in AddOptions :
    AddEventListener(type, "null", options)

MalformedRemove ==
  \E type \in Types, listener \in Listeners \cup {"null"} :
    /\ ~HasListener(type, listener)
    /\ \E options \in RemoveOptions :
         RemoveEventListener(type, listener, options)

C12_MalformedSteps ==
  /\ Silent \/ ~(MalformedAdd \/ MalformedRemove)
  /\ \A event \in {"null", "untyped"} :
       \/ Silent /\ lastCall' = Returned(event, "true")
       \/ ~DispatchEvent(event)

C12_MalformedCallsSilent == [][C12_MalformedSteps]_vars

\* a malformed dispatchEvent has returned true on a target whose list for
\* the type holds a callable registration, and only with one of the two
\* listeners, so that removing the other is a removal of a listener never
\* added
C12_Witness ==
  /\ lastCall = Returned("untyped", "true")
  /\ HasListener(ev.type, "f1")
  /\ ~HasListener(ev.type, "n1")
  /\ stack = << >>

\* C14: defaultPrevented is monotonic. Once it is true for an event object
\* no operation sets it back (only the construction of another event, which
\* is another object, shows a flag that is not true), and it becomes true
\* only by preventDefault() on a cancelable event or by
\* stopImmediatePropagation().
C14_MonotonicSteps ==
  /\ (Truthy(ev.defaultPrevented) /\ ~Truthy(ev'.defaultPrevented))
       => /\ stack = << >>
          /\ \E type \in Types, init \in EventInits : NewEvent(type, init)
  /\ (~Truthy(ev.defaultPrevented) /\ Truthy(ev'.defaultPrevented))
       => \/ PreventDefault /\ Truthy(ev.cancelable)
          \/ StopImmediatePropagation

C14_DefaultPreventedMonotonic == [][C14_MonotonicSteps]_vars

\* preventDefault() acted on the cancelable event during a dispatch, then
\* initEvent made the event non-cancelable: the flag is still true
C14_Witness ==
  /\ stack # << >>
  /\ Top.pdAt # 0
  /\ Top.sipAt = 0
  /\ ~Truthy(ev.cancelable)
  /\ Truthy(ev.defaultPrevented)

\* C17: an event constructed without the init dictionary (or without a flag
\* in it) has bubbles, cancelable and defaultPrevented equal to the boolean
\* false, never undefined.
C17_FlagsAreBooleans ==
  /\ ev.bubbles \in {"true", "false"}
  /\ ev.cancelable \in {"true", "false"}
  /\ ev.defaultPrevented \in {"true", "false"}

\* C18: a listener that fails aborts dispatchEvent. The failure reaches the
\* caller, the dispatch invokes no later registration (it is over, and no
\* listener is entered on that step), and the once-removal is not run: the
\* lists are exactly as they were when the listener failed, so every once
\* registration the dispatch invoked, the failing one included, that was in
\* the list then is in it now. The dispatch that follows copies that list,
\* and the registration it reaches first is invoked even when it is a once
\* registration that was invoked before.
Throws == Len(stack') = Len(stack) - 1 /\ lastCall'.ret = "throw"

C18_AbortSteps ==
  /\ Throws
       => /\ lastCall' = Returned("ev", "throw")
          /\ stack' = Below
          /\ invokedSet' = invokedSet
          /\ listeners' = listeners
          /\ \A r \in Range(listeners[Top.type]) :
               Truthy(r.once) /\ r.id \in Range(Top.invoked)
                 => r.id \in Ids(listeners'[Top.type])
  /\ (lastCall = Returned("ev", "throw") /\ Enters)
       => /\ NewTop.recorders = listeners[ev.type]
          /\ LET n == NextStop(listeners[ev.type], 1, ev)
             IN n # 0 /\ NewTop.invoked = <<listeners[ev.type][n].id>>

C19_UninvokedSteps ==
  Finishes =>
    \A r \in Range(listeners[Top.type]) :
      Truthy(r.once) /\ r.id \notin Range(Top.invoked)
        => r.id \in Ids(listeners'[Top.type])

C19_UninvokedOnceKept == [][C19_UninvokedSteps]_vars

\* C20 as stated: a dispatch of an event whose defaultPrevented is already
\* true, on a target with at least one registration for the type, invokes
\* the first registration of the snapshot.
C20_FirstSteps ==
  (/\ Truthy(ev.defaultPrevented)
   /\ ev.type \in DOMAIN listeners
   /\ listeners[ev.type] # << >>
   /\ DispatchEvent("ev"))
    => /\ Enters
       /\ NewTop.invoked = <<listeners[ev.type][1].id>>

C20_PreventedFrames ==
  \A f \in Frames : f.dp0 => f.invoked = <<f.start[1].id>>

C20_PreventedSteps ==
  /\ (Finishes /\ Top.dp0) => lastCall'.ret = "false"
  /\ (/\ Truthy(ev.defaultPrevented)
      /\ ev.type \in DOMAIN listeners
      /\ listeners[ev.type] # << >>
      /\ DispatchEvent("ev"))
       => IF IsCallableRec(listeners[ev.type][1])
          THEN /\ Enters
               /\ NewTop.dp0
               /\ NewTop.invoked = <<listeners[ev.type][1].id>>
          ELSE /\ stack' = stack
               /\ invokedSet' = invokedSet
               /\ lastCall' = Returned("ev", "false")
  /\ (/\ Truthy(ev.defaultPrevented)
      /\ ev.type \notin DOMAIN listeners
      /\ DispatchEvent("ev"))
       => /\ stack' = stack
          /\ invokedSet' = invokedSet

---------------------------------------------------------------------------
\* Properties of the binder (BootSpec)

\* the keys the constructor has defined on window, and the constructor's
\* part of the call log
InstalledKeys == {boot.log[i].key : i \in {j \in 1..Len(boot.log) :
                                             boot.log[j].op = "define"}}

ModuleIndex(name) == CHOOSE k \in 1..Len(ModuleNames) : ModuleNames[k] = name

\* C13: once the binder is constructed, Event, EventTarget and ProgressEvent
\* are defined on the global namespace: the modules iterated include the
\* event module, so every name of its exports has been installed.
C13_EventGlobalsInstalled ==
  boot.pc # "new" =>
    /\ EventExports \subseteq InstalledKeys
    /\ {"Event", "EventTarget", "ProgressEvent"} \subseteq DOMAIN boot.window

\* C15 as stated: after shutdown none of the names the constructor installed
\* is still defined on the global namespace.
C15_BindingsRemoved ==
  boot.pc = "exited" => \A key \in InstalledKeys : key \notin DOMAIN boot.window

\* C15: on shutdown uninitialize is called for every module that has one,
\* in the order of the modules and for no other, and nothing else happens:
\* the names the constructor installed are all still defined on the global
\* namespace, with the values installed.
UninitializeCalls ==
  SelectSeq(boot.log, LAMBDA e : e.op = "uninitialize")

ModulesWithUninitialize ==
  SelectSeq(boot.modules, LAMBDA m : m.uninitialize)

C15_ShutdownFrames ==
  /\ boot.pc = "exited" =>
       /\ Len(UninitializeCalls) = Len(ModulesWithUninitialize)
       /\ \A i \in 1..Len(UninitializeCalls) :
            UninitializeCalls[i].module = ModulesWithUninitialize[i].name
  /\ boot.pc # "exited" => UninitializeCalls = << >>
  /\ \A i \in 1..Len(boot.log) :
       boot.log[i].op = "define" =>
         /\ boot.log[i].key \in DOMAIN boot.window
         /\ boot.window[boot.log[i].key].value = boot.log[i].module

C15_ShutdownSteps ==
  (boot.pc = "ready" /\ boot'.pc = "exited") => boot'.window = boot.window

C15_ShutdownKeepsBindings ==
  [](C15_ShutdownFrames) /\ [][C15_ShutdownSteps]_vars

\* after shutdown: one module has no uninitialize hook, another has been
\* uninitialized, and an installed name is still defined
C15_Witness ==
  /\ boot.pc = "exited"
  /\ Len(UninitializeCalls) = 2
  /\ ~boot.modules[2].uninitialize
  /\ InstalledKeys = {"setTimeout", "clearTimeout", "performance"}
  /\ InstalledKeys \subseteq DOMAIN boot.window

\* C16 as stated: every initialize call of the constructor comes before
\* every installation of an exported name.
C16_AllInitializeFirst ==
  \A i, j \in 1..Len(boot.log) :
    boot.log[i].op = "initialize" /\ boot.log[j].op = "define" => i < j

\* C16: the constructor takes the modules in order, and for each module it
\* calls initialize (when the module has one) before it installs that
\* module's exported names; so a module's initialize precedes its own
\* installations and those of the later modules, not those of the earlier
\* ones. Every name installed is read-only: an assignment to it leaves its
\* value as installed.
ConstructorCalls ==
  SelectSeq(boot.log, LAMBDA e : e.op \in {"initialize", "define"})

C16_OrderFrames ==
  boot.pc # "new" =>
    /\ \A k \in 1..Len(boot.modules) :
         LET m == boot.modules[k]
             inits == {i \in 1..Len(ConstructorCalls) :
                         ConstructorCalls[i] = Called("initialize", m)}
         IN /\ Cardinality(inits) = IF m.initialize THEN 1 ELSE 0
            /\ \A n \in 1..Len(m.exports.keys) :
                 \E i \in 1..Len(ConstructorCalls) :
                   ConstructorCalls[i] = Defined(m, m.exports.keys[n])
    /\ \A i, j \in 1..Len(ConstructorCalls) :
         i < j =>
           /\ ModuleIndex(ConstructorCalls[i].module)
                <= ModuleIndex(ConstructorCalls[j].module)
           /\ ~(/\ ConstructorCalls[i].module = ConstructorCalls[j].module
                /\ ConstructorCalls[i].op = "define"
                /\ ConstructorCalls[j].op = "initialize")
    /\ \A key \in InstalledKeys :
         /\ key \in DOMAIN boot.window
         /\ ~boot.window[key].writable
         /\ boot.window[key].value # "app"

C16_AssignSteps ==
  \A key \in InstalledKeys :
    AssignGlobal(key) => /\ boot'.window = boot.window
                         /\ boot'.lastAssign.outcome = "rejected"

C16_InitializeThenInstall ==
  [](C16_OrderFrames) /\ [][C16_AssignSteps]_vars

\* the first module's names were installed before the second module's
\* initialize was called, and an assignment to an installed name has just
\* been turned down
C16_Witness ==
  /\ boot.lastAssign = [key |-> "setTimeout", outcome |-> "rejected"]
  /\ \E i, j \in 1..Len(boot.log) :
       /\ i < j
       /\ boot.log[i] = Defined(boot.modules[1], "setTimeout")
       /\ boot.log[j] = Called("initialize", boot.modules[2])

=============================================================================
